---------------------------- MODULE Spec2Model ----------------------------
(***************************************************************************)
(* Discrete-event simulator of an inference cluster (simulator.py) and its *)
(* capacity search (capacity.py).                                          *)
(*                                                                         *)
(* Time is counted in milliseconds, so that calculate_duration             *)
(*   ttft_ms / 1000.0 + output_tokens / output_tokens_per_sec   (seconds)  *)
(* is the integer  ttft_ms + output_tokens * 1000 / output_tokens_per_sec. *)
(* The inputs are drawn from sets on which that quotient is exact.         *)
(* Request objects are named by their position 1..Len(requests) in the     *)
(* input list; devices by their index 0..num_devices-1.                    *)
(***************************************************************************)
EXTENDS Integers, Sequences, FiniteSets, TLC

\* ------------------------------------------------------------------ bounds
MaxReq == 4
MaxArrival == 1
MaxTokens == 1
MaxDevices == 2
MaxInjected == 1
MaxStatsCalls == 2
MaxSmallReq == 2

\* ------------------------------------------------------- program constants
Unset == -1
None == -2
NoRequest == 0

VARIABLES
    num_devices,            \* Cluster: len(self.devices)
    ttft_ms,                \* Device.ttft_ms (identical on every device)
    output_tokens_per_sec,  \* Device.output_tokens_per_sec
    requests,               \* the list handed to Simulator.run
    loaded,                 \* position of run's "for req in requests" loop
    requests_map,           \* Simulator.requests_map: id -> request object
    start_time,             \* Request.start_time per request object
    completion_time,        \* Request.completion_time per request object
    is_busy,                \* Device.is_busy per device
    current_request,        \* Device.current_request per device
    total_busy_time,        \* Device.total_busy_time per device
    events,                 \* Simulator.events, the heapq list
    current_time,           \* Simulator.current_time
    waiting_queue,          \* Simulator.waiting_queue
    completed_requests,     \* Simulator.completed_requests
    pc,                     \* position of the caller: load, loop, done, crashed
    stats,                  \* what the last get_stats call returned
    stats_calls,            \* number of get_stats calls made
    pushes,                 \* history: number of heappush calls so far
    popped,                 \* history: the events popped, in pop order
    enq_order,              \* history: requests appended to waiting_queue
    deq_order,              \* history: requests popped from waiting_queue
    start_order,            \* history: requests in the order _start_job ran
    arrival_order,          \* history: requests in the order handle_arrival ran
    device_of,              \* history: device a request object was started on
    injected,               \* number of schedule_event calls made by the caller
    output_tokens,          \* CapacityFinder.output_tokens
    max_latency_threshold_sec,  \* find_max_rpm's argument, in milliseconds
    duration_min,           \* find_max_rpm's argument, minutes as num/den
    low,                    \* find_max_rpm: low, in 1/RpmScale requests/minute
    high,                   \* find_max_rpm: high, same unit
    best_rpm,               \* find_max_rpm: best_rpm, same unit
    mid_rpm,                \* find_max_rpm: mid_rpm of the last iteration begun
    iterations,             \* find_max_rpm: iterations of the for loop completed
    fpc,                    \* position of find_max_rpm
    tried                   \* history: each candidate and the branch it took

vars == << num_devices, ttft_ms, output_tokens_per_sec, requests, loaded,
           requests_map, start_time, completion_time, is_busy, current_request,
           total_busy_time, events, current_time, waiting_queue,
           completed_requests, pc, stats, stats_calls, pushes, popped,
           enq_order, deq_order, start_order, arrival_order, device_of,
           injected, output_tokens, max_latency_threshold_sec, duration_min,
           low, high, best_rpm, mid_rpm, iterations, fpc, tried >>

\* the variables of a capacity search
finder == << output_tokens, max_latency_threshold_sec, duration_min, low, high,
             best_rpm, mid_rpm, iterations, fpc, tried >>

\* ------------------------------------------------------------------ inputs
ArrivalTimes == { k * 1000 : k \in 0..MaxArrival }
TokenCounts == 1..MaxTokens
TtftChoices == { 500 }
RateChoices == { 1, 2 }

\* Request(id=i, arrival_time, input_tokens, output_tokens); ids are assigned
\* in list order starting at 0, as generate_workload and __main__ do.
RequestLists ==
    UNION { { [ i \in 1..n |-> [ id |-> i - 1,
                                 arrival_time |-> a[i],
                                 output_tokens |-> t[i] ] ] :
                a \in [ 1..n -> ArrivalTimes ], t \in [ 1..n -> TokenCounts ] } :
            n \in 0..MaxReq }

Devices == 0 .. (num_devices - 1)
Reqs == 1 .. Len(requests)

\* ------------------------------------------------------------------- Event
Event(timestamp, type, request_id, device_id, seq) ==
    [ timestamp |-> timestamp, type |-> type, request_id |-> request_id,
      device_id |-> device_id, seq |-> seq ]

\* the comparison of Event reversed: later timestamps first
EventGt(a, b) == a.timestamp > b.timestamp

\* dataclass(order=True) with every field but timestamp compare=False
EventLt(a, b) == a.timestamp < b.timestamp

\* ------------------------------------------------------------------- heapq
\* positions are 0-based as in heapq; heap[p + 1] is Python's heap[p]
RECURSIVE SiftDownLoop(_, _, _, _)
SiftDownLoop(heap, newitem, startpos, pos) ==
    IF pos > startpos
    THEN LET parentpos == (pos - 1) \div 2
             parent == heap[parentpos + 1]
         IN  IF EventLt(newitem, parent)
             THEN SiftDownLoop([heap EXCEPT ![pos + 1] = parent],
                               newitem, startpos, parentpos)
             ELSE [heap EXCEPT ![pos + 1] = newitem]
    ELSE [heap EXCEPT ![pos + 1] = newitem]

siftdown(heap, startpos, pos) == SiftDownLoop(heap, heap[pos + 1], startpos, pos)

RECURSIVE SiftUpLoop(_, _, _, _)
SiftUpLoop(heap, newitem, startpos, pos) ==
    LET endpos == Len(heap)
        childpos == 2 * pos + 1
        rightpos == childpos + 1
    IN  IF childpos < endpos
        THEN LET c == IF rightpos < endpos
                         /\ ~EventLt(heap[childpos + 1], heap[rightpos + 1])
                      THEN rightpos ELSE childpos
             IN  SiftUpLoop([heap EXCEPT ![pos + 1] = heap[c + 1]],
                            newitem, startpos, c)
        ELSE siftdown([heap EXCEPT ![pos + 1] = newitem], startpos, pos)

siftup(heap, pos) == SiftUpLoop(heap, heap[pos + 1], pos, pos)

heappush(heap, item) == siftdown(Append(heap, item), 0, Len(heap))

\* heappop returns an item and leaves a heap: the two halves of its result
heappop_item(heap) == IF Len(heap) > 1 THEN heap[1] ELSE heap[Len(heap)]

heappop_rest(heap) ==
    LET lastelt == heap[Len(heap)]
        rest == SubSeq(heap, 1, Len(heap) - 1)
    IN  IF rest # << >> THEN siftup([rest EXCEPT ![1] = lastelt], 0) ELSE rest


\* ------------------------------------------------------------------ Device
\* a / b for a >= 0 and b # 0, b of either sign
Quot(a, b) == IF b > 0 THEN a \div b ELSE 0 - (a \div (0 - b))

\* Device.calculate_duration, in milliseconds; raises ZeroDivisionError when
\* output_tokens_per_sec = 0 (callers test DurationRaises first)
DurationRaises == output_tokens_per_sec = 0

calculate_duration(req) ==
    ttft_ms + Quot(req.output_tokens * 1000, output_tokens_per_sec)

\* ----------------------------------------------------------------- Cluster
\* get_next_device falling back to device 0 when every device is busy
get_next_device_fallback(busy) ==
    IF \E d \in Devices : ~busy[d]
    THEN CHOOSE d \in Devices : ~busy[d] /\ \A e \in Devices : e < d => busy[e]
    ELSE 0

\* get_next_device scanning the devices from the highest index down
get_next_device_last(busy) ==
    IF \E d \in Devices : ~busy[d]
    THEN CHOOSE d \in Devices : ~busy[d] /\ \A e \in Devices : e > d => busy[e]
    ELSE None

\* first device that is not busy, in index order; None when all are busy
get_next_device(busy) ==
    IF \E d \in Devices : ~busy[d]
    THEN CHOOSE d \in Devices : ~busy[d] /\ \A e \in Devices : e < d => busy[e]
    ELSE None

\* --------------------------------------------------------------- Simulator
\* The mutable state a handler works on, as one record; "raised" is set when
\* the handler is left by an exception.
Cur ==
    [ start_time |-> start_time, completion_time |-> completion_time,
      is_busy |-> is_busy, current_request |-> current_request,
      total_busy_time |-> total_busy_time, events |-> events,
      waiting_queue |-> waiting_queue,
      completed_requests |-> completed_requests, pushes |-> pushes,
      enq_order |-> enq_order, deq_order |-> deq_order,
      start_order |-> start_order, arrival_order |-> arrival_order,
      device_of |-> device_of, raised |-> FALSE ]

schedule_event(st, timestamp, type, request_id, device_id) ==
    [ st EXCEPT !.events = heappush(@, Event(timestamp, type, request_id,
                                             device_id, st.pushes)),
                !.pushes = @ + 1 ]

\* _start_job scheduling DEVICE_FREE at the duration instead of now + duration
_start_job_relative(st, now, d, r) ==
    LET st1 == [ st EXCEPT !.is_busy[d] = TRUE,
                           !.current_request[d] = r,
                           !.start_time[r] = now,
                           !.start_order = Append(@, r),
                           !.device_of[r] = d ]
    IN  IF DurationRaises
        THEN [ st1 EXCEPT !.raised = TRUE ]
        ELSE LET duration == calculate_duration(requests[r])
                 st2 == [ st1 EXCEPT !.total_busy_time[d] = @ + duration ]
             IN  schedule_event(st2, duration, "DEVICE_FREE",
                                requests[r].id, d)

\* _start_job without the addition to total_busy_time
_start_job_no_account(st, now, d, r) ==
    LET st1 == [ st EXCEPT !.is_busy[d] = TRUE,
                           !.current_request[d] = r,
                           !.start_time[r] = now,
                           !.start_order = Append(@, r),
                           !.device_of[r] = d ]
    IN  IF DurationRaises
        THEN [ st1 EXCEPT !.raised = TRUE ]
        ELSE LET duration == calculate_duration(requests[r])
             IN  schedule_event(st1, now + duration, "DEVICE_FREE",
                                requests[r].id, d)

_start_job(st, now, d, r) ==
    LET st1 == [ st EXCEPT !.is_busy[d] = TRUE,
                           !.current_request[d] = r,
                           !.start_time[r] = now,
                           !.start_order = Append(@, r),
                           !.device_of[r] = d ]
    IN  IF DurationRaises
        THEN [ st1 EXCEPT !.raised = TRUE ]
        ELSE LET duration == calculate_duration(requests[r])
                 st2 == [ st1 EXCEPT !.total_busy_time[d] = @ + duration ]
             IN  schedule_event(st2, now + duration, "DEVICE_FREE",
                                requests[r].id, d)

\* handle_arrival appending to the pending queue whether or not the request
\* was started (the else of the dispatch test missing)
handle_arrival_always_queue(st, now, request_id) ==
    IF request_id \notin DOMAIN requests_map
    THEN [ st EXCEPT !.raised = TRUE ]
    ELSE LET r == requests_map[request_id]
             device == get_next_device(st.is_busy)
             st1 == [ st EXCEPT !.arrival_order = Append(@, r) ]
             st2 == IF device # None THEN _start_job(st1, now, device, r)
                                     ELSE st1
         IN  [ st2 EXCEPT !.waiting_queue = Append(@, r),
                          !.enq_order = Append(@, r) ]

handle_arrival(st, now, request_id) ==
    IF request_id \notin DOMAIN requests_map
    THEN [ st EXCEPT !.raised = TRUE ]
    ELSE LET r == requests_map[request_id]
             device == get_next_device(st.is_busy)
             st1 == [ st EXCEPT !.arrival_order = Append(@, r) ]
         IN  IF device # None
             THEN _start_job(st1, now, device, r)
             ELSE [ st1 EXCEPT !.waiting_queue = Append(@, r),
                               !.enq_order = Append(@, r) ]

\* handle_completion without the dispatch of the next waiter
handle_completion_no_dispatch(st, now, request_id, device_id) ==
    IF request_id \notin DOMAIN requests_map \/ device_id \notin Devices
    THEN [ st EXCEPT !.raised = TRUE ]
    ELSE LET r == requests_map[request_id]
         IN  [ st EXCEPT !.completion_time[r] = now,
                         !.completed_requests = Append(@, r),
                         !.is_busy[device_id] = FALSE,
                         !.current_request[device_id] = NoRequest ]

\* handle_completion leaving the device's current_request attached
handle_completion_keep_ref(st, now, request_id, device_id) ==
    IF request_id \notin DOMAIN requests_map \/ device_id \notin Devices
    THEN [ st EXCEPT !.raised = TRUE ]
    ELSE LET r == requests_map[request_id]
             st1 == [ st EXCEPT !.completion_time[r] = now,
                                !.completed_requests = Append(@, r),
                                !.is_busy[device_id] = FALSE ]
         IN  IF st1.waiting_queue # << >>
             THEN LET next_req == Head(st1.waiting_queue)
                      st2 == [ st1 EXCEPT !.waiting_queue = Tail(@),
                                          !.deq_order = Append(@, next_req) ]
                  IN  _start_job(st2, now, device_id, next_req)
             ELSE st1

\* handle_completion taking the newest waiter (pop) instead of the oldest
handle_completion_lifo(st, now, request_id, device_id) ==
    IF request_id \notin DOMAIN requests_map \/ device_id \notin Devices
    THEN [ st EXCEPT !.raised = TRUE ]
    ELSE LET r == requests_map[request_id]
             st1 == [ st EXCEPT !.completion_time[r] = now,
                                !.completed_requests = Append(@, r),
                                !.is_busy[device_id] = FALSE,
                                !.current_request[device_id] = NoRequest ]
         IN  IF st1.waiting_queue # << >>
             THEN LET q == st1.waiting_queue
                      next_req == q[Len(q)]
                      st2 == [ st1 EXCEPT !.waiting_queue = SubSeq(q, 1, Len(q) - 1),
                                          !.deq_order = Append(@, next_req) ]
                  IN  _start_job(st2, now, device_id, next_req)
             ELSE st1

handle_completion(st, now, request_id, device_id) ==
    IF request_id \notin DOMAIN requests_map \/ device_id \notin Devices
    THEN [ st EXCEPT !.raised = TRUE ]
    ELSE LET r == requests_map[request_id]
             st1 == [ st EXCEPT !.completion_time[r] = now,
                                !.completed_requests = Append(@, r),
                                !.is_busy[device_id] = FALSE,
                                !.current_request[device_id] = NoRequest ]
         IN  IF st1.waiting_queue # << >>
             THEN LET next_req == Head(st1.waiting_queue)
                      st2 == [ st1 EXCEPT !.waiting_queue = Tail(@),
                                          !.deq_order = Append(@, next_req) ]
                  IN  _start_job(st2, now, device_id, next_req)
             ELSE st1

\* the handler's result written back to the variables
Commit(st) ==
    /\ start_time' = st.start_time
    /\ completion_time' = st.completion_time
    /\ is_busy' = st.is_busy
    /\ current_request' = st.current_request
    /\ total_busy_time' = st.total_busy_time
    /\ events' = st.events
    /\ waiting_queue' = st.waiting_queue
    /\ completed_requests' = st.completed_requests
    /\ pushes' = st.pushes
    /\ enq_order' = st.enq_order
    /\ deq_order' = st.deq_order
    /\ start_order' = st.start_order
    /\ arrival_order' = st.arrival_order
    /\ device_of' = st.device_of
    /\ pc' = IF st.raised THEN "crashed" ELSE pc

\* ------------------------------------------------------------------- stats
\* Request.latency, in milliseconds
latency(r) ==
    IF completion_time[r] < 0 \/ requests[r].arrival_time < 0
    THEN 0
    ELSE completion_time[r] - requests[r].arrival_time

RECURSIVE SumLatency(_)
SumLatency(s) == IF s = << >> THEN 0 ELSE latency(Head(s)) + SumLatency(Tail(s))

MaxLatency(s) ==
    CHOOSE m \in { latency(s[i]) : i \in 1..Len(s) } :
        \A i \in 1..Len(s) : latency(s[i]) <= m

\* Simulator.get_stats.  kind says which Python type was returned: the str
\* "No requests completed." or the dict.  Quotients are kept as num/den:
\* avg_latency_sec = sum(ms) / (len * 1000),
\* throughput_rpm  = len * 60 * 1000 / current_time(ms), or len * 60 / 1.
get_stats ==
    IF completed_requests = << >>
    THEN [ kind |-> "str", text |-> "No requests completed." ]
    ELSE [ kind |-> "dict",
           total_requests |-> Len(completed_requests),
           avg_latency_sec |-> [ num |-> SumLatency(completed_requests),
                                 den |-> Len(completed_requests) * 1000 ],
           max_latency_ms |-> MaxLatency(completed_requests),
           throughput_rpm |->
               IF current_time > 0
               THEN [ num |-> Len(completed_requests) * 60 * 1000,
                      den |-> current_time ]
               ELSE [ num |-> Len(completed_requests) * 60, den |-> 1 ],
           total_time_ms |-> current_time ]

NoStats == [ kind |-> "unset" ]

\* -------------------------------------------------------------------- Init
\* The state after Cluster(...) and Simulator(cluster), with the request list
\* that run will be given.
InitWith(n, ttft, rate, reqs) ==
    /\ num_devices = n
    /\ ttft_ms = ttft
    /\ output_tokens_per_sec = rate
    /\ requests = reqs
    /\ loaded = 0
    /\ requests_map = [ x \in {} |-> 0 ]
    /\ start_time = [ r \in 1..Len(reqs) |-> Unset ]
    /\ completion_time = [ r \in 1..Len(reqs) |-> Unset ]
    /\ is_busy = [ d \in 0..(n - 1) |-> FALSE ]
    /\ current_request = [ d \in 0..(n - 1) |-> NoRequest ]
    /\ total_busy_time = [ d \in 0..(n - 1) |-> 0 ]
    /\ events = << >>
    /\ current_time = 0
    /\ waiting_queue = << >>
    /\ completed_requests = << >>
    /\ pc = "load"
    /\ stats = NoStats
    /\ stats_calls = 0
    /\ pushes = 0
    /\ popped = << >>
    /\ enq_order = << >>
    /\ deq_order = << >>
    /\ start_order = << >>
    /\ arrival_order = << >>
    /\ device_of = [ r \in 1..Len(reqs) |-> None ]
    /\ injected = 0

\* no capacity search is in progress: the simulator is driven directly
NoFinder ==
    /\ output_tokens = 0
    /\ max_latency_threshold_sec = 0
    /\ duration_min = [ num |-> 0, den |-> 1 ]
    /\ low = 0
    /\ high = 0
    /\ best_rpm = 0
    /\ mid_rpm = 0
    /\ iterations = 0
    /\ fpc = "none"
    /\ tried = << >>

Init ==
    \E n \in 1..MaxDevices, ttft \in TtftChoices, rate \in RateChoices,
       reqs \in RequestLists :
        InitWith(n, ttft, rate, reqs) /\ NoFinder

\* ----------------------------------------------------------------- actions
config == << num_devices, ttft_ms, output_tokens_per_sec, requests >>

\* run, lines 76-78: one turn of "for req in requests"
LoadRequest ==
    /\ pc = "load"
    /\ loaded < Len(requests)
    /\ LET req == requests[loaded + 1]
       IN  /\ requests_map' = ((req.id :> (loaded + 1)) @@ requests_map)
           /\ loaded' = loaded + 1
           /\ \E st \in { schedule_event(Cur, req.arrival_time,
                                         "REQUEST_ARRIVAL", req.id, None) } :
                 Commit(st)
    /\ UNCHANGED << config, finder, current_time, stats, stats_calls, popped, injected >>

\* run: the for loop is exhausted, the while loop is entered
EnterLoop ==
    /\ pc = "load"
    /\ loaded = Len(requests)
    /\ pc' = "loop"
    /\ UNCHANGED << config, finder, loaded, requests_map, start_time, completion_time,
                    is_busy, current_request, total_busy_time, events,
                    current_time, waiting_queue, completed_requests, stats,
                    stats_calls, pushes, popped, enq_order, deq_order,
                    start_order, arrival_order, device_of, injected >>

\* run, lines 80-82: the event heappop returns, the state it leaves, and the
\* clock advanced to the event's timestamp
Top == heappop_item(events)

AfterPop == [ Cur EXCEPT !.events = heappop_rest(events) ]

Pop ==
    /\ current_time' = Top.timestamp
    /\ popped' = Append(popped, Top)
    /\ UNCHANGED << config, finder, loaded, requests_map, stats, stats_calls, injected >>

\* run, lines 80-85: one turn of the while loop on a REQUEST_ARRIVAL event
Arrival ==
    /\ pc = "loop"
    /\ events # << >>
    /\ Top.type = "REQUEST_ARRIVAL"
    /\ Pop
    /\ \E st \in { handle_arrival(AfterPop, Top.timestamp, Top.request_id) } :
          Commit(st)

\* run, lines 80-87: one turn of the while loop on a DEVICE_FREE event
Completion ==
    /\ pc = "loop"
    /\ events # << >>
    /\ Top.type = "DEVICE_FREE"
    /\ Pop
    /\ \E st \in { handle_completion(AfterPop, Top.timestamp, Top.request_id,
                                    Top.device_id) } :
          Commit(st)

\* run, line 80: the event list is empty, run returns
ExitLoop ==
    /\ pc = "loop"
    /\ events = << >>
    /\ pc' = "done"
    /\ UNCHANGED << config, finder, loaded, requests_map, start_time, completion_time,
                    is_busy, current_request, total_busy_time, events,
                    current_time, waiting_queue, completed_requests, stats,
                    stats_calls, pushes, popped, enq_order, deq_order,
                    start_order, arrival_order, device_of, injected >>

\* get_stats consuming the ledger it reports on
GetStats_draining ==
    /\ pc = "done"
    /\ stats_calls < MaxStatsCalls
    /\ stats' = get_stats
    /\ stats_calls' = stats_calls + 1
    /\ completed_requests' = << >>
    /\ UNCHANGED << config, finder, loaded, requests_map, start_time, completion_time,
                    is_busy, current_request, total_busy_time, events,
                    current_time, waiting_queue, pc,
                    pushes, popped, enq_order, deq_order, start_order,
                    arrival_order, device_of, injected >>

\* a caller reads the statistics of the finished run
GetStats ==
    /\ pc = "done"
    /\ stats_calls < MaxStatsCalls
    /\ stats' = get_stats
    /\ stats_calls' = stats_calls + 1
    /\ UNCHANGED << config, finder, loaded, requests_map, start_time, completion_time,
                    is_busy, current_request, total_busy_time, events,
                    current_time, waiting_queue, completed_requests, pc,
                    pushes, popped, enq_order, deq_order, start_order,
                    arrival_order, device_of, injected >>

Next ==
    \/ LoadRequest
    \/ EnterLoop
    \/ Arrival
    \/ Completion
    \/ ExitLoop
    \/ GetStats

Spec == Init /\ [][Next]_vars

\* ---------------------------------------------- any constructor arguments
\* Cluster.__init__ and Device.__init__ store what they are given: the
\* cluster may have no device, and ttft_ms and output_tokens_per_sec may be
\* zero or negative.
AnyTtft == { -1000, 0, 1000 }
AnyRate == { -1, 0, 1 }

InitCfg ==
    \E n \in 0..MaxDevices, ttft \in AnyTtft, rate \in AnyRate,
       reqs \in { q \in RequestLists : Len(q) <= MaxSmallReq } :
        InitWith(n, ttft, rate, reqs) /\ NoFinder

SpecCfg == InitCfg /\ [][Next]_vars

\* ------------------------------------------- events scheduled by the caller
\* schedule_event is a public method: before run is called, the owner of the
\* simulator may schedule an event of any kind, for any request id and device.
EventTypes == { "REQUEST_ARRIVAL", "DEVICE_FREE", "BOGUS" }

ScheduleEvent ==
    /\ pc = "load"
    /\ loaded = 0
    /\ injected < MaxInjected
    /\ \E timestamp \in ArrivalTimes, type \in EventTypes,
          request_id \in 0..Len(requests), device_id \in Devices \cup { None } :
            \E st \in { schedule_event(Cur, timestamp, type, request_id,
                                      device_id) } :
                Commit(st)
    /\ injected' = injected + 1
    /\ UNCHANGED << config, finder, loaded, requests_map, current_time, stats,
                    stats_calls, popped >>

\* run, lines 80-87: one turn of the while loop on an event that is neither
\* REQUEST_ARRIVAL nor DEVICE_FREE: no branch of the if/elif is taken
SkipUnknown ==
    /\ pc = "loop"
    /\ events # << >>
    /\ Top.type \notin { "REQUEST_ARRIVAL", "DEVICE_FREE" }
    /\ Pop
    /\ \E st \in { AfterPop } : Commit(st)

InitExt == Init /\ Len(requests) <= MaxSmallReq

NextExt ==
    \/ ScheduleEvent
    \/ LoadRequest
    \/ EnterLoop
    \/ Arrival
    \/ Completion
    \/ SkipUnknown
    \/ ExitLoop
    \/ GetStats

SpecExt == InitExt /\ [][NextExt]_vars

\* The event loop is a single thread that runs to exhaustion, so a step that
\* can be taken is taken.  Eventualities are checked on request lists of at
\* most MaxSmallReq requests.
InitLive == Init /\ Len(requests) <= MaxSmallReq

LiveSpec == InitLive /\ [][Next]_vars /\ WF_vars(Next)

\* ------------------------------------------------------- the test run
\* __main__: Cluster(2, 100, 50) and the requests of "for i in range(10)",
\* Request(id=i, arrival_time=i*0.1, output_tokens=100); the loop is taken
\* at each of its lengths up to ScenarioCount.
ScenarioCount == 10

ScenarioRequests(n) ==
    [ i \in 1..n |-> [ id |-> i - 1,
                       arrival_time |-> (i - 1) * 100,
                       output_tokens |-> 100 ] ]

InitScenario ==
    \E n \in 0..ScenarioCount :
        InitWith(2, 100, 50, ScenarioRequests(n)) /\ NoFinder

SpecScenario == InitScenario /\ [][Next]_vars

\* ---------------------------------------------------------- CapacityFinder
\* find_max_rpm halves the bracket Iterations times.  Rates (low, high,
\* mid_rpm, best_rpm) are kept as integers in units of 1/RpmScale request per
\* minute; the initial states are those for which 1.5 * theoretical_max_rpm
\* is a whole number of requests per minute, so that every midpoint of the
\* search is an integer in that unit.
Iterations == 10

RpmScale == 2 ^ Iterations

\* service_time of find_max_rpm, in milliseconds
service_time == ttft_ms + Quot(output_tokens * 1000, output_tokens_per_sec)

\* (num_devices / service_time) * 60, in 1/RpmScale request per minute
theoretical_max_rpm == Quot(num_devices * 60 * 1000 * RpmScale, service_time)

\* a/b < c/d for a, c >= 0 and b, d > 0, by comparing whole parts and then
\* the inverted remainders, so that no product leaves the machine integers
RECURSIVE FracLt(_, _, _, _)
FracLt(a, b, c, d) ==
    IF a \div b # c \div d THEN a \div b < c \div d
    ELSE IF c % d = 0 THEN FALSE
    ELSE IF a % b = 0 THEN TRUE
    ELSE FracLt(d, c % d, b, a % b)

\* a < b for quotients num/den
RatLt(a, b) == FracLt(a.num, a.den, b.num, b.den)

\* the test of line 80 with "and" in the place of "or"
Saturated_both(st, mid) ==
    /\ RatLt(st.throughput_rpm, [ num |-> mid * 95, den |-> RpmScale * 100 ])
    /\ RatLt([ num |-> max_latency_threshold_sec, den |-> 1000 ],
             st.avg_latency_sec)

\* the test of line 80 with the 0.9 of the comment above it
Saturated_90(st, mid) ==
    \/ RatLt(st.throughput_rpm, [ num |-> mid * 90, den |-> RpmScale * 100 ])
    \/ RatLt([ num |-> max_latency_threshold_sec, den |-> 1000 ],
             st.avg_latency_sec)

\* realized_rpm < mid_rpm * 0.95 or avg_latency > max_latency_threshold_sec
Saturated(st, mid) ==
    \/ RatLt(st.throughput_rpm, [ num |-> mid * 95, den |-> RpmScale * 100 ])
    \/ RatLt([ num |-> max_latency_threshold_sec, den |-> 1000 ],
             st.avg_latency_sec)

\* lines 75-84: the stats of one evaluation move the bracket; reading a key
\* of the str that get_stats returns for an empty run raises TypeError
Bisect(st, mid) ==
    IF st.kind # "dict"
    THEN /\ fpc' = "crashed"
         /\ UNCHANGED << low, high, best_rpm, iterations, tried >>
    ELSE /\ IF Saturated(st, mid)
            THEN /\ high' = mid
                 /\ UNCHANGED << low, best_rpm >>
                 /\ tried' = Append(tried, [ mid |-> mid, kept |-> FALSE ])
            ELSE /\ best_rpm' = mid
                 /\ low' = mid
                 /\ UNCHANGED high
                 /\ tried' = Append(tried, [ mid |-> mid, kept |-> TRUE ])
         /\ iterations' = iterations + 1
         /\ fpc' = "search"

simulation == << loaded, requests_map, start_time, completion_time, is_busy,
                 current_request, total_busy_time, events, current_time,
                 waiting_queue, completed_requests, pc, pushes, popped,
                 enq_order, deq_order, start_order, arrival_order, device_of,
                 injected >>

\* find_max_rpm, lines 54-62
FindMaxRpm ==
    /\ fpc = "init"
    /\ low' = 1 * RpmScale
    /\ high' = Quot(theoretical_max_rpm * 3, 2)
    /\ best_rpm' = 0
    /\ fpc' = "search"
    /\ UNCHANGED << config, simulation, stats, stats_calls, output_tokens,
                    max_latency_threshold_sec, duration_min, mid_rpm,
                    iterations, tried >>

\* find_max_rpm, line 86
Return ==
    /\ fpc = "search"
    /\ iterations = Iterations
    /\ fpc' = "returned"
    /\ UNCHANGED << config, simulation, stats, stats_calls, output_tokens,
                    max_latency_threshold_sec, duration_min, low, high,
                    best_rpm, mid_rpm, iterations, tried >>

FinderParams(tok, thr, dur) ==
    /\ output_tokens = tok
    /\ max_latency_threshold_sec = thr
    /\ duration_min = dur
    /\ low = 0
    /\ high = 0
    /\ best_rpm = 0
    /\ mid_rpm = 0
    /\ iterations = 0
    /\ fpc = "init"
    /\ tried = << >>

\* ------------------------------------- the search against arbitrary answers
\* What run_simulation may answer for a candidate: throughput just below, at
\* and above 0.95 * candidate, average latency just below, at and above the
\* threshold.
OracleAnswers(mid) ==
    { [ kind |-> "dict",
        throughput_rpm |-> [ num |-> t, den |-> RpmScale * 100 ],
        avg_latency_sec |-> [ num |-> l, den |-> 1000 ] ] :
        t \in { mid * 95 - 1, mid * 95, mid * 100 },
        l \in { max_latency_threshold_sec - 1, max_latency_threshold_sec,
                max_latency_threshold_sec + 1 } }

\* one turn of the for loop of find_max_rpm, lines 66-84, run_simulation
\* answering with any of OracleAnswers
OracleIteration ==
    /\ fpc = "search"
    /\ iterations < Iterations
    /\ mid_rpm' = (low + high) \div 2
    /\ \E st \in OracleAnswers((low + high) \div 2) :
          /\ stats' = st
          /\ Bisect(st, (low + high) \div 2)
    /\ UNCHANGED << config, simulation, stats_calls, output_tokens,
                    max_latency_threshold_sec, duration_min >>

ThresholdChoices == { 5000 }

InitOracle ==
    \E n \in 1..MaxDevices, ttft \in TtftChoices, rate \in RateChoices,
       tok \in TokenCounts, thr \in ThresholdChoices :
        /\ InitWith(n, ttft, rate, << >>)
        /\ FinderParams(tok, thr, [ num |-> 2, den |-> 1 ])
        /\ (n * 60 * 1000 * 3) % ((ttft + Quot(tok * 1000, rate)) * 2) = 0

NextOracle ==
    \/ FindMaxRpm
    \/ OracleIteration
    \/ Return

SpecOracle == InitOracle /\ [][NextOracle]_vars

\* ---------------------------------------- the search against the simulator
\* random.expovariate: the gaps between consecutive arrivals, in milliseconds
InterArrivals == { 0, 1000 }

RECURSIVE Cumulative(_, _)
Cumulative(g, i) == IF i = 0 THEN 0 ELSE g[i] + Cumulative(g, i - 1)

\* generate_workload: int(rpm * duration_min) requests with ids 0, 1, ..,
\* arrival times the running sum of the gaps, and the finder's token count
generate_workload(rpm, dur) ==
    LET num_requests == (rpm * dur.num) \div (RpmScale * dur.den)
    IN  { [ i \in 1..num_requests |-> [ id |-> i - 1,
                                        arrival_time |-> Cumulative(g, i),
                                        output_tokens |-> output_tokens ] ] :
            g \in [ 1..num_requests -> InterArrivals ] }

\* run_simulation building its Simulator on a Cluster made once and kept
RunSimulation_shared_cluster ==
    /\ fpc = "search"
    /\ iterations < Iterations
    /\ mid_rpm' = (low + high) \div 2
    /\ \E reqs \in generate_workload((low + high) \div 2, duration_min) :
          /\ requests' = reqs
          /\ loaded' = 0
          /\ requests_map' = [ x \in {} |-> 0 ]
          /\ start_time' = [ r \in 1..Len(reqs) |-> Unset ]
          /\ completion_time' = [ r \in 1..Len(reqs) |-> Unset ]
          /\ UNCHANGED << is_busy, current_request, total_busy_time >>
          /\ events' = << >>
          /\ current_time' = 0
          /\ waiting_queue' = << >>
          /\ completed_requests' = << >>
          /\ pc' = "load"
          /\ stats' = NoStats
          /\ stats_calls' = 0
          /\ pushes' = 0
          /\ popped' = << >>
          /\ enq_order' = << >>
          /\ deq_order' = << >>
          /\ start_order' = << >>
          /\ arrival_order' = << >>
          /\ device_of' = [ r \in 1..Len(reqs) |-> None ]
          /\ injected' = 0
    /\ fpc' = "running"
    /\ UNCHANGED << num_devices, ttft_ms, output_tokens_per_sec, output_tokens,
                    max_latency_threshold_sec, duration_min, low, high,
                    best_rpm, iterations, tried >>

\* find_max_rpm, lines 66-67, and run_simulation, lines 40-43: the candidate
\* is the midpoint, and a new Cluster, a new Simulator and a new workload are
\* made for it
RunSimulation ==
    /\ fpc = "search"
    /\ iterations < Iterations
    /\ mid_rpm' = (low + high) \div 2
    /\ \E reqs \in generate_workload((low + high) \div 2, duration_min) :
          /\ requests' = reqs
          /\ loaded' = 0
          /\ requests_map' = [ x \in {} |-> 0 ]
          /\ start_time' = [ r \in 1..Len(reqs) |-> Unset ]
          /\ completion_time' = [ r \in 1..Len(reqs) |-> Unset ]
          /\ is_busy' = [ d \in Devices |-> FALSE ]
          /\ current_request' = [ d \in Devices |-> NoRequest ]
          /\ total_busy_time' = [ d \in Devices |-> 0 ]
          /\ events' = << >>
          /\ current_time' = 0
          /\ waiting_queue' = << >>
          /\ completed_requests' = << >>
          /\ pc' = "load"
          /\ stats' = NoStats
          /\ stats_calls' = 0
          /\ pushes' = 0
          /\ popped' = << >>
          /\ enq_order' = << >>
          /\ deq_order' = << >>
          /\ start_order' = << >>
          /\ arrival_order' = << >>
          /\ device_of' = [ r \in 1..Len(reqs) |-> None ]
          /\ injected' = 0
    /\ fpc' = "running"
    /\ UNCHANGED << num_devices, ttft_ms, output_tokens_per_sec, output_tokens,
                    max_latency_threshold_sec, duration_min, low, high,
                    best_rpm, iterations, tried >>

\* run_simulation, line 45, and find_max_rpm, lines 75-84
Evaluate ==
    /\ fpc = "running"
    /\ pc = "done"
    /\ stats' = get_stats
    /\ stats_calls' = stats_calls + 1
    /\ Bisect(get_stats, mid_rpm)
    /\ UNCHANGED << config, simulation, output_tokens,
                    max_latency_threshold_sec, duration_min, mid_rpm >>

\* sim.run(requests), line 44
Simulate ==
    /\ fpc = "running"
    /\ \/ LoadRequest
       \/ EnterLoop
       \/ Arrival
       \/ Completion
       \/ ExitLoop

\* the window in which the top of the bracket offers MaxWindow requests
MaxWindow == 3

InitFinder ==
    \E n \in 1..MaxDevices, ttft \in TtftChoices, rate \in RateChoices,
       tok \in TokenCounts, thr \in ThresholdChoices :
        /\ InitWith(n, ttft, rate, << >>)
        /\ (n * 60 * 1000 * 3) % ((ttft + Quot(tok * 1000, rate)) * 2) = 0
        /\ FinderParams(tok, thr,
              [ num |-> MaxWindow,
                den |-> (n * 60 * 1000 * 3)
                           \div ((ttft + Quot(tok * 1000, rate)) * 2) ])

NextFinder ==
    \/ FindMaxRpm
    \/ RunSimulation
    \/ Simulate
    \/ Evaluate
    \/ Return

SpecFinder == InitFinder /\ [][NextFinder]_vars

\* ------------------------------------------------------------ vocabulary
Started(r) == start_time[r] # Unset
Completed(r) == completion_time[r] # Unset
InSeq(x, s) == \E i \in 1..Len(s) : s[i] = x
IsPrefix(s, t) == Len(s) <= Len(t) /\ \A i \in 1..Len(s) : s[i] = t[i]
ValidConfig == num_devices >= 1 /\ ttft_ms > 0 /\ output_tokens_per_sec > 0
\* requests started on device d and not yet completed
InService(d) == { r \in Reqs : device_of[r] = d /\ Started(r) /\ ~Completed(r) }

\* ------------------------------------------------------------------ claims

\* C1: for a cluster of at least one device with positive ttft and decode
\* rate and a finite request list with unique ids, run terminates; when the
\* loop has ended the event queue and the pending queue are empty and every
\* input request is in completed_requests; and every request that is in the
\* pending queue is later started and completed by a DEVICE_FREE event.
C1_RunTerminatesAllServed ==
    /\ <>(pc = "done")
    /\ [](pc = "done" =>
            /\ events = << >>
            /\ waiting_queue = << >>
            /\ \A r \in Reqs : InSeq(r, completed_requests) /\ Completed(r)
            /\ \A i \in 1..Len(enq_order) :
                  /\ InSeq(enq_order[i], start_order)
                  /\ \E j \in 1..Len(popped) :
                        /\ popped[j].type = "DEVICE_FREE"
                        /\ popped[j].request_id = requests[enq_order[i]].id)

C1_Witness ==
    /\ pc = "done"
    /\ Len(enq_order) >= 1
    /\ \A r \in Reqs : InSeq(r, completed_requests)

\* C2: two distinct requests served by the same device never overlap: one of
\* them is completed no later than the other is started.  With one device and
\* two requests arriving at 0 with the same service time S, the second one to
\* start starts at S or later.
C2_NoOverlapOnDevice ==
    /\ \A r1, r2 \in Reqs :
          (r1 # r2 /\ Started(r1) /\ Started(r2) /\ device_of[r1] = device_of[r2])
              => \/ Completed(r1) /\ completion_time[r1] <= start_time[r2]
                 \/ Completed(r2) /\ completion_time[r2] <= start_time[r1]
    /\ ( /\ num_devices = 1
         /\ Len(requests) = 2
         /\ Len(start_order) = 2
         /\ \A r \in Reqs : requests[r].arrival_time = 0
         /\ requests[1].output_tokens = requests[2].output_tokens )
          => start_time[start_order[2]] >= calculate_duration(requests[1])

C2_Witness ==
    \E r1, r2 \in Reqs :
        /\ r1 # r2
        /\ device_of[r1] = device_of[r2]
        /\ Completed(r1)
        /\ Started(r2)
        /\ requests[r2].arrival_time < completion_time[r1]

\* C3: between processed events every device owns at most one request, and
\* its is_busy flag is true exactly when its current_request is not null.
C3_BusyIffOwnsRequest ==
    \A d \in Devices :
        /\ is_busy[d] <=> current_request[d] # NoRequest
        /\ Cardinality(InService(d)) <= 1
        /\ InService(d) = IF is_busy[d] THEN { current_request[d] } ELSE { }

C3_Witness ==
    \E d1, d2 \in Devices :
        /\ is_busy[d1] /\ current_request[d1] # NoRequest
        /\ ~is_busy[d2] /\ current_request[d2] = NoRequest
        /\ \E r \in Reqs : device_of[r] = d2 /\ Completed(r)

\* C4: for every request, a set start time is at or after the arrival time,
\* and a set completion time is at or after the start time; the latency of a
\* completed request is at least its service duration.
C4_TimesOrdered ==
    \A r \in Reqs :
        /\ Started(r) => requests[r].arrival_time <= start_time[r]
        /\ (Started(r) /\ Completed(r)) =>
              /\ start_time[r] <= completion_time[r]
              /\ latency(r) >= calculate_duration(requests[r])

C4_Witness ==
    \E r \in Reqs :
        /\ Completed(r)
        /\ requests[r].arrival_time < start_time[r]
        /\ latency(r) > calculate_duration(requests[r])

\* C5: the pending queue is first-come-first-served: requests leave it in the
\* order they were appended, which is the order their ARRIVAL events were
\* processed; a DEVICE_FREE event starts the oldest waiter and no step starts
\* more than one waiter.
C5_PendingQueueFifo ==
    /\ [](/\ enq_order = deq_order \o waiting_queue
          /\ IsPrefix(start_order, arrival_order))
    /\ [][ deq_order' # deq_order =>
             /\ Top.type = "DEVICE_FREE"
             /\ deq_order' = Append(deq_order, Head(waiting_queue))
             /\ waiting_queue' = Tail(waiting_queue)
             /\ start_order' = Append(start_order, Head(waiting_queue))
             /\ start_time'[Head(waiting_queue)] = current_time' ]_vars

C5_Witness ==
    /\ Len(deq_order) >= 2
    /\ Len(waiting_queue) >= 1

\* C6: events are popped in order of timestamp, and of two events with equal
\* timestamps the one pushed earlier is popped first.
C6_TiesPopInInsertionOrder ==
    \A i, j \in 1..Len(popped) :
        i < j =>
            \/ popped[i].timestamp < popped[j].timestamp
            \/ /\ popped[i].timestamp = popped[j].timestamp
               /\ popped[i].seq < popped[j].seq

\* C7: when all requests arrive at time 0 with the same service time S on N
\* devices, the first min(N, count) requests of the list complete at S, and
\* the (N+k)-th request of the list completes no earlier than
\* (ceil(k/N) + 1) * S.
C7_BatchCompletionTimes ==
    ( /\ pc = "done"
      /\ Len(requests) >= 1
      /\ \A r \in Reqs : /\ requests[r].arrival_time = 0
                         /\ requests[r].output_tokens = requests[1].output_tokens )
        => LET S == calculate_duration(requests[1])
               N == num_devices
               count == Len(requests)
           IN  /\ \A i \in Reqs : i <= N => completion_time[i] = S
               /\ \A k \in 1..count :
                     N + k <= count =>
                        completion_time[N + k] >= (((k + N - 1) \div N) + 1) * S

\* C8: get_stats on a run with no completed request returns statistics with
\* zero completed requests and zero throughput.
C8_EmptyRunZeroStats ==
    (stats_calls > 0 /\ completed_requests = << >>)
        => /\ stats.kind = "dict"
           /\ stats.total_requests = 0
           /\ stats.throughput_rpm.num = 0

\* C9: a cluster with a non-positive device count, decode rate or
\* time-to-first-token never processes an event.
C9_BadConfigNeverRuns == ValidConfig \/ popped = << >>

\* C10: an event popped by the loop whose kind is neither REQUEST_ARRIVAL nor
\* DEVICE_FREE, or whose request id is not in requests_map, aborts the run:
\* it is the last event popped and the run has ended with an error.
BadEvent(e) ==
    \/ e.type \notin { "REQUEST_ARRIVAL", "DEVICE_FREE" }
    \/ e.request_id \notin DOMAIN requests_map

C10_BadEventAborts ==
    \A i \in 1..Len(popped) :
        (pc # "load" /\ BadEvent(popped[i])) => (pc = "crashed" /\ i = Len(popped))

\* ---------------------------------------------------------------- C15..C20
Count(x, s) == Cardinality({ i \in 1..Len(s) : s[i] = x })

RECURSIVE SumOver(_, _)
SumOver(S, f) ==
    IF S = { } THEN 0
    ELSE LET x == CHOOSE y \in S : TRUE IN f[x] + SumOver(S \ { x }, f)

\* C15: get_stats is idempotent: a call leaves the simulator, the cluster and
\* the requests as they were, and a call that follows another call on the
\* same finished run returns what that call returned.
C15_GetStatsIdempotent ==
    [][ stats_calls' # stats_calls =>
          /\ UNCHANGED << config, loaded, requests_map, start_time,
                          completion_time, is_busy, current_request,
                          total_busy_time, events, current_time,
                          waiting_queue, completed_requests, pc >>
          /\ stats_calls >= 1 => stats' = stats ]_vars

C15_Witness ==
    /\ stats_calls = 2
    /\ stats.kind = "dict"
    /\ stats.total_requests >= 2

\* C16: dispatch is first-available: the step that processes an ARRIVAL gives
\* the request to the idle device of lowest index when some device is idle,
\* and when every device is busy it appends the request to the pending queue
\* and changes no device.
C16_FirstAvailableDispatch ==
    [][ (pc = "loop" /\ events # << >> /\ Top.type = "REQUEST_ARRIVAL"
         /\ popped' # popped) =>
          LET r == requests_map[Top.request_id]
              idle == { d \in Devices : ~is_busy[d] }
          IN  IF idle # { }
              THEN \E d \in idle :
                      /\ \A e \in idle : d <= e
                      /\ device_of'[r] = d
                      /\ is_busy' = [ is_busy EXCEPT ![d] = TRUE ]
                      /\ current_request' = [ current_request EXCEPT ![d] = r ]
                      /\ waiting_queue' = waiting_queue
              ELSE /\ waiting_queue' = Append(waiting_queue, r)
                   /\ device_of' = device_of
                   /\ start_time' = start_time
                   /\ is_busy' = is_busy
                   /\ current_request' = current_request ]_vars

C16_Witness ==
    /\ num_devices = 2
    /\ \E r \in Reqs : device_of[r] = 1 /\ is_busy[0]
    /\ \E r \in Reqs : device_of[r] = 0 /\ Completed(r)
    /\ waiting_queue # << >>

\* C17: the clock is monotonic: with positive ttft and decode rate no step
\* lowers current_time, and no event in the queue has a timestamp earlier
\* than the clock.
C17_ClockMonotonic ==
    /\ [](\A i \in 1..Len(events) : events[i].timestamp >= current_time)
    /\ [][ current_time' >= current_time ]_vars

C17_Witness ==
    /\ Len(popped) >= 4
    /\ \E i \in 1..Len(popped) :
          /\ i < Len(popped)
          /\ popped[i].timestamp = popped[i + 1].timestamp
    /\ \E i \in 1..Len(popped) :
          /\ i < Len(popped)
          /\ popped[i].timestamp < popped[i + 1].timestamp
    /\ current_time > 0

\* C18: with unique ids every request is started at most once and completed
\* at most once: its start time and its completion time never change once
\* set, it is in the ledger at most once, and when the run has ended it has
\* been started once, completed once and is in the ledger once.
C18_StartedCompletedOnce ==
    /\ [](\A r \in Reqs :
            /\ Count(r, start_order) = IF Started(r) THEN 1 ELSE 0
            /\ Count(r, completed_requests) = IF Completed(r) THEN 1 ELSE 0
            /\ pc = "done" => (Started(r) /\ Completed(r)))
    /\ [][ \A r \in Reqs :
             /\ Started(r) => start_time'[r] = start_time[r]
             /\ Completed(r) => completion_time'[r] = completion_time[r] ]_vars

C18_Witness ==
    /\ pc = "done"
    /\ Len(requests) >= 3
    /\ Len(enq_order) >= 2
    /\ \A r \in Reqs : Count(r, completed_requests) = 1

\* C19: starting a request adds its whole service duration to the device's
\* total_busy_time and schedules DEVICE_FREE at clock + duration; when the
\* run has ended, total_busy_time of each device is the sum of completion
\* time - start time over the requests it served, and is at most the clock.
C19_BusyTimeAccounting ==
    /\ [](pc = "done" =>
            \A d \in Devices :
               /\ total_busy_time[d] =
                     SumOver({ r \in Reqs : device_of[r] = d },
                             [ r \in Reqs |-> completion_time[r] - start_time[r] ])
               /\ total_busy_time[d] <= current_time)
    /\ [][ \A r \in Reqs :
             (~Started(r) /\ start_time'[r] # Unset) =>
                LET d == device_of'[r]
                    duration == calculate_duration(requests[r])
                IN  /\ total_busy_time'[d] = total_busy_time[d] + duration
                    /\ \E i \in 1..Len(events') :
                          /\ events'[i].type = "DEVICE_FREE"
                          /\ events'[i].request_id = requests[r].id
                          /\ events'[i].device_id = d
                          /\ events'[i].timestamp = current_time' + duration ]_vars

C19_Witness ==
    /\ pc = "done"
    /\ \E d \in Devices :
          /\ Cardinality({ r \in Reqs : device_of[r] = d }) >= 2
          /\ total_busy_time[d] < current_time

\* the accumulator runs ahead of the clock while a request is in service
C19_MidRunAhead ==
    /\ pc = "loop"
    /\ \E d \in Devices : total_busy_time[d] > current_time

\* C20: the simulator is work-conserving: when the pending queue is not empty
\* every device is busy, and the event queue holds exactly one DEVICE_FREE
\* event for each busy device and none for an idle one.
C20_WorkConserving ==
    /\ waiting_queue # << >> => \A d \in Devices : is_busy[d]
    /\ \A d \in Devices :
          Cardinality({ i \in 1..Len(events) :
                          /\ events[i].type = "DEVICE_FREE"
                          /\ events[i].device_id = d })
             = IF is_busy[d] THEN 1 ELSE 0
    /\ Cardinality({ i \in 1..Len(events) : events[i].type = "DEVICE_FREE" })
          = Cardinality({ d \in Devices : is_busy[d] })

C20_Witness ==
    /\ num_devices = 2
    /\ waiting_queue # << >>
    /\ Cardinality({ i \in 1..Len(events) : events[i].type = "DEVICE_FREE" }) = 2
    /\ completed_requests # << >>


\* C13: in the test run (2 devices, 10 requests of service time 2.1 s arriving
\* every 0.1 s from 0) each device serves exactly 5 requests; request 0
\* completes at 2.1 s on device 0, request 1 is in service on device 1 while
\* request 0 is, and request 2 waits in the pending queue, starts at 2.1 s and
\* completes at 4.2 s.
C13_TestRunSchedule ==
    (pc = "done" /\ Len(requests) = ScenarioCount) =>
        /\ \A d \in Devices : Cardinality({ r \in Reqs : device_of[r] = d }) = 5
        /\ \A r \in Reqs : calculate_duration(requests[r]) = 2100
        /\ device_of[1] = 0 /\ start_time[1] = 0 /\ completion_time[1] = 2100
        /\ device_of[2] = 1
        /\ start_time[2] < completion_time[1] /\ start_time[1] < completion_time[2]
        /\ InSeq(3, enq_order)
        /\ device_of[3] = 0 /\ start_time[3] = 2100 /\ completion_time[3] = 4200

C13_Witness ==
    /\ pc = "done"
    /\ Len(requests) = ScenarioCount
    /\ Len(completed_requests) = ScenarioCount
    /\ stats_calls >= 1

\* -------------------------------------------------------------- C11..C14
\* sustainable, in the words of C11: realized throughput >= 0.95 * candidate
\* and average latency <= threshold
Sustainable(st, mid) ==
    /\ ~RatLt(st.throughput_rpm, [ num |-> mid * 95, den |-> RpmScale * 100 ])
    /\ ~RatLt([ num |-> max_latency_threshold_sec, den |-> 1000 ],
              st.avg_latency_sec)

KeptCandidates == { i \in 1..Len(tried) : tried[i].kept }

C12_EstimateAtMostTheoretical ==
    fpc = "returned" => best_rpm <= theoretical_max_rpm

\* what the test of line 80 does bound: 0.95 * best_rpm <= R
C12_EstimateWithinTolerance ==
    fpc # "init" => best_rpm * 19 <= theoretical_max_rpm * 20

\* C14: every evaluation of a capacity search starts on new state: when
\* run_simulation has built its cluster and simulator, every device is idle,
\* owns no request and has total_busy_time 0, and the simulator's event
\* queue, pending queue, ledger and requests_map are empty and its clock 0,
\* whatever the evaluations before it did.
C14_FreshStatePerEvaluation ==
    (fpc = "running" /\ pc = "load" /\ loaded = 0) =>
        /\ \A d \in Devices :
              /\ ~is_busy[d]
              /\ current_request[d] = NoRequest
              /\ total_busy_time[d] = 0
        /\ events = << >>
        /\ waiting_queue = << >>
        /\ completed_requests = << >>
        /\ DOMAIN requests_map = { }
        /\ current_time = 0
        /\ \A r \in Reqs : ~Started(r) /\ ~Completed(r)

C14_Witness ==
    /\ fpc = "running" /\ pc = "load" /\ loaded = 0
    /\ iterations >= 2
    /\ \E i \in 1..Len(tried) : tried[i].kept
    /\ Len(requests) >= 2

=============================================================================
